---- MODULE Spec2Model ----
(***************************************************************************)
(* SodaSqlOperator (soda_operator.py): an Airflow operator that resolves a *)
(* connection, dispatches on its type to one of three YAML configuration   *)
(* builders, runs a Soda scan on the handle created in the constructor and *)
(* turns the scan's outcome into a raise, a log entry, or a silent return. *)
(* One action per statement of execute(); the Scan engine and the Airflow  *)
(* connection store are modelled by the calls the operator makes on them.  *)
(***************************************************************************)
EXTENDS Integers, Sequences, FiniteSets, TLC

\* Number of execute() calls made on one operator instance.
MaxRuns == 2

\* Python's None, for an optional field of a connection descriptor.  A
\* provided value v is the 1-tuple <<v>>.
None == <<>>

\* ------------------------------------------------------------------------
\* Input universes
\* ------------------------------------------------------------------------
ConnTypes == {"postgres", "oracle", "mysql", "sqlite"}
Hosts == {None, <<"db.example.org">>}
Ports == {None, <<1521>>}
Logins == {None, <<"svc_soda">>}
Passwords == {<<"s3cret">>}
Schemas == {None, <<"analytics">>}
Extras == {{}, {"aws_access_key_id", "aws_secret_access_key", "role_arn"}}

\* What BaseHook.get_connection returns for a known identifier.
Descriptors ==
    [conn_type : ConnTypes, host : Hosts, port : Ports, login : Logins,
     password : Passwords, schema : Schemas, extra_dejson : Extras]

\* The connection store answers a lookup with a descriptor or not at all.
NotFound == [conn_type |-> "<not found>"]

\* The methods of SodaSqlOperator that getattr() can resolve at line 97.
Methods ==
    {"_fetch_postgres_yaml_config", "_fetch_oracle_yaml_config",
     "_fetch_mysql_yaml_config"}

\* ------------------------------------------------------------------------
\* Text: a string is a sequence of tokens, an f-string the concatenation of
\* its literal tokens and of str() of its interpolated values.
\* ------------------------------------------------------------------------
\* str() of an optional string field: None prints as the word None.
Str(x) == IF x = None THEN <<"None">> ELSE <<x[1]>>

\* str() of an optional integer field.
StrInt(x) == IF x = None THEN <<"None">> ELSE IF x[1] = 1521 THEN <<"1521">> ELSE <<"0">>

\* extra_dejson.get(key) and extra_dejson.get(key, None): the value stored
\* under key, or None.
ExtraGet(extra, key) == IF key \in extra THEN <<"<" \o key \o ">">> ELSE None

\* A dispatch with a default case: unknown types fall back to postgres.
BuilderName_Fallback(conn_type) ==
    IF conn_type \in {"postgres", "oracle", "mysql"}
    THEN "_fetch_" \o conn_type \o "_yaml_config"
    ELSE "_fetch_postgres_yaml_config"

\* f"_fetch_{db_conn.conn_type}_yaml_config"
BuilderName(conn_type) == "_fetch_" \o conn_type \o "_yaml_config"

\* The YAML text of _fetch_postgres_yaml_config, one token sequence per line.
PostgresYaml(conn_id, c) ==
    << <<"data_source", conn_id, ":">>,
       <<"type", ":", "redshift">>,
       <<"connection", ":">>,
       <<"host", ":">> \o Str(c.host),
       <<"username", ":">> \o Str(c.login),
       <<"password", ":">> \o Str(c.password),
       <<"database", ":">> \o Str(c.schema),
       <<"access_key_id", ":">> \o Str(ExtraGet(c.extra_dejson, "aws_access_key_id")),
       <<"secret_access_key", ":">> \o Str(ExtraGet(c.extra_dejson, "aws_secret_access_key")),
       <<"role_arn", ":">> \o Str(ExtraGet(c.extra_dejson, "role_arn")),
       <<"region", ":", "us-east-1">>,
       <<"schema", ":">> >>

\* The YAML text of _fetch_oracle_yaml_config.
OracleYaml(conn_id, c) ==
    << <<"data_source", conn_id, ":">>,
       <<"type", ":", "oracle">>,
       <<"username", ":">> \o Str(c.login),
       <<"password", ":">> \o Str(c.password),
       <<"connectstring", ":">> \o Str(c.host) \o <<":">> \o StrInt(c.port)
           \o <<"/">> \o Str(c.schema) >>

\* A mysql template that lost its database line.
MysqlYaml_NoDatabase(conn_id, c) ==
    << <<"data_source", conn_id, ":">>,
       <<"type", ":", "mysql">>,
       <<"host", ":">> \o Str(c.host),
       <<"username", ":">> \o Str(c.login),
       <<"password", ":">> \o Str(c.password) >>

\* The YAML text of _fetch_mysql_yaml_config.
MysqlYaml(conn_id, c) ==
    << <<"data_source", conn_id, ":">>,
       <<"type", ":", "mysql">>,
       <<"host", ":">> \o Str(c.host),
       <<"username", ":">> \o Str(c.login),
       <<"password", ":">> \o Str(c.password),
       <<"database", ":">> \o Str(c.schema) >>

\* A test-mode message that names the task but drops the check summary.
TestingMsg_NoResults(d, t, r) == <<"SODA TESTING DISREGARD: ", d, ".", t, ":\n\n">>

\* f"SODA TESTING DISREGARD: {dag_id}.{task_id}:\n\n{results}"
TestingMsg(d, t, r) == <<"SODA TESTING DISREGARD: ", d, ".", t, ":\n\n">> \o r

\* f":warning: SODA WARNING :warning:: {dag_id}.{task_id}:\n\n{results}"
WarningMsg(d, t, r) == <<":warning: SODA WARNING :warning:: ", d, ".", t, ":\n\n">> \o r

\* scan.get_all_checks_text(): the engine's summary of the checks it ran.
ChecksText(fail, warn) ==
    <<"checks", IF fail THEN "FAIL" ELSE "no-fail", IF warn THEN "WARN" ELSE "no-warn">>

\* An except branch that swallows the failure whatever the mode.
OnChecksFail_AlwaysLog(tm) == "log"

\* The except branch of lines 109-115: log in test mode, re-raise otherwise.
OnChecksFail(tm) == IF tm THEN "log" ELSE "raise"

\* A warning branch placed in the else of the failure check: silent when
\* the summary reports a failure.
WarnEntries_OnlyIfNoFail(warns, d, t, r) ==
    IF warns /\ r[2] # "FAIL"
    THEN <<[level |-> "WARNING", msg |-> WarningMsg(d, t, r)]>> ELSE <<>>

\* A warning branch that logs with logger.error.
WarnEntries_AsError(warns, d, t, r) ==
    IF warns THEN <<[level |-> "ERROR", msg |-> WarningMsg(d, t, r)]>> ELSE <<>>

\* Lines 117-119: the entries the warning branch appends to the log.
WarnEntries(warns, d, t, r) ==
    IF warns THEN <<[level |-> "WARNING", msg |-> WarningMsg(d, t, r)]>> ELSE <<>>

\* ------------------------------------------------------------------------
\* State
\* ------------------------------------------------------------------------
VARIABLES
    airflow_conn_id,  \* self.airflow_conn_id
    soda_cl_path,     \* self.soda_cl_path
    soda_vars,        \* self.soda_vars
    test_mode,        \* self.test_mode
    scan,             \* self.scan, the handle created in __init__
    conn_store,       \* what BaseHook.get_connection answers per identifier
    context,          \* the execution context passed to execute()
    pc,               \* position of the current execute() call
    db_conn,          \* local db_conn
    builder,          \* the attribute name resolved by getattr
    results,          \* local results
    dag_id,           \* local dag_id
    task_id,          \* local task_id
    error,            \* the exception that ended the current call, if any
    calls,            \* calls made on self.scan by the current execute()
    builders,         \* _fetch_* methods entered by the current execute()
    log,              \* entries emitted on logger by the current execute()
    entry,            \* self.scan as it was when the current call started
    runs,             \* execute() calls started so far
    passed            \* execute() calls that got past the dispatch so far

vars ==
    <<airflow_conn_id, soda_cl_path, soda_vars, test_mode, scan, conn_store,
      context, pc, db_conn, builder, results, dag_id, task_id, error, calls,
      builders, log, entry, runs, passed>>

\* The operator's constructor arguments and its environment never change
\* during execute().
fixed == <<airflow_conn_id, soda_cl_path, soda_vars, test_mode, conn_store, context>>

\* Scan(): a fresh handle with nothing registered and nothing executed.
NewScan ==
    [telemetry |-> TRUE, configs |-> <<>>, data_source_name |-> None,
     files |-> <<>>, variables |-> {}, executed |-> 0,
     seen |-> [configs |-> 0, files |-> 0],
     error_logs |-> FALSE, checks_fail |-> FALSE, check_warns |-> FALSE]

\* __init__: store the arguments, create the scan handle, disable telemetry.
Init ==
    /\ airflow_conn_id = "dwh"
    /\ soda_cl_path = "checks.yml"
    /\ soda_vars \in {{}, {"ds"}}
    /\ test_mode \in BOOLEAN
    /\ scan = [NewScan EXCEPT !.telemetry = FALSE]
    /\ conn_store \in [{"dwh"} -> Descriptors \cup {NotFound}]
    /\ context = [dag |-> [dag_id |-> "nightly"], task |-> [task_id |-> "scan_dwh"]]
    /\ pc = "idle"
    /\ db_conn = NotFound
    /\ builder = ""
    /\ results = <<>>
    /\ dag_id = ""
    /\ task_id = ""
    /\ error = "none"
    /\ calls = <<>>
    /\ builders = <<>>
    /\ log = <<>>
    /\ entry = scan
    /\ runs = 0
    /\ passed = 0

\* ------------------------------------------------------------------------
\* execute(), statement by statement
\* ------------------------------------------------------------------------
\* Line 96, entered from the orchestrator: look the connection up; an unknown
\* identifier raises out of execute().
GetConnection ==
    /\ pc \in {"idle", "returned", "raised"}
    /\ runs < MaxRuns
    /\ runs' = runs + 1
    /\ entry' = scan
    /\ calls' = <<>>
    /\ builders' = <<>>
    /\ log' = <<>>
    /\ builder' = ""
    /\ results' = <<>>
    /\ dag_id' = ""
    /\ task_id' = ""
    /\ IF conn_store[airflow_conn_id] = NotFound
       THEN /\ pc' = "raised"
            /\ error' = "AirflowNotFoundException"
            /\ db_conn' = NotFound
       ELSE /\ pc' = "getattr"
            /\ error' = "none"
            /\ db_conn' = conn_store[airflow_conn_id]
    /\ UNCHANGED <<fixed, scan, passed>>

\* Line 97, getattr(self, name): resolve the builder or raise AttributeError.
Dispatch ==
    /\ pc = "getattr"
    /\ IF BuilderName(db_conn.conn_type) \in Methods
       THEN /\ builder' = BuilderName(db_conn.conn_type)
            /\ pc' = "call_builder"
            /\ passed' = passed + 1
            /\ error' = error
       ELSE /\ pc' = "raised"
            /\ error' = "AttributeError"
            /\ UNCHANGED <<builder, passed>>
    /\ UNCHANGED <<fixed, scan, db_conn, results, dag_id, task_id, calls,
                   builders, log, entry, runs>>

\* A builder that works on a Scan() created for this execution only.
AddConfiguration_FreshScan(name, text) ==
    /\ pc = "call_builder"
    /\ builder = name
    /\ scan' = [NewScan EXCEPT !.telemetry = FALSE, !.configs = <<text>>]
    /\ builders' = Append(builders, name)
    /\ calls' = Append(calls, "add_configuration_yaml_str")
    /\ pc' = "set_data_source_name"
    /\ UNCHANGED <<fixed, db_conn, builder, results, dag_id, task_id, error,
                   log, entry, runs, passed>>

\* scan.add_configuration_yaml_str(text), as called by a builder named name.
AddConfiguration(name, text) ==
    /\ pc = "call_builder"
    /\ builder = name
    /\ scan' = [scan EXCEPT !.configs = Append(@, text)]
    /\ builders' = Append(builders, name)
    /\ calls' = Append(calls, "add_configuration_yaml_str")
    /\ pc' = "set_data_source_name"
    /\ UNCHANGED <<fixed, db_conn, builder, results, dag_id, task_id, error,
                   log, entry, runs, passed>>

\* Lines 54-70.
FetchPostgresYamlConfig ==
    AddConfiguration("_fetch_postgres_yaml_config", PostgresYaml(airflow_conn_id, db_conn))

\* Lines 72-81.
FetchOracleYamlConfig ==
    AddConfiguration("_fetch_oracle_yaml_config", OracleYaml(airflow_conn_id, db_conn))

\* Lines 83-93.
FetchMysqlYamlConfig ==
    AddConfiguration("_fetch_mysql_yaml_config", MysqlYaml(airflow_conn_id, db_conn))

\* Line 98.
SetDataSourceName ==
    /\ pc = "set_data_source_name"
    /\ scan' = [scan EXCEPT !.data_source_name = <<airflow_conn_id>>]
    /\ calls' = Append(calls, "set_data_source_name")
    /\ pc' = "add_sodacl_yaml_files"
    /\ UNCHANGED <<fixed, db_conn, builder, results, dag_id, task_id, error,
                   builders, log, entry, runs, passed>>

\* Line 99.
AddSodaclYamlFiles ==
    /\ pc = "add_sodacl_yaml_files"
    /\ scan' = [scan EXCEPT !.files = Append(@, soda_cl_path)]
    /\ calls' = Append(calls, "add_sodacl_yaml_files")
    /\ pc' = "add_variables"
    /\ UNCHANGED <<fixed, db_conn, builder, results, dag_id, task_id, error,
                   builders, log, entry, runs, passed>>

\* Line 100.
AddVariables ==
    /\ pc = "add_variables"
    /\ scan' = [scan EXCEPT !.variables = @ \cup soda_vars]
    /\ calls' = Append(calls, "add_variables")
    /\ pc' = "execute"
    /\ UNCHANGED <<fixed, db_conn, builder, results, dag_id, task_id, error,
                   builders, log, entry, runs, passed>>

\* Line 101: the engine runs everything registered on the handle; whether it
\* logged errors, and whether checks failed or warned, is the engine's.
ScanExecute ==
    /\ pc = "execute"
    /\ \E e \in BOOLEAN, f \in BOOLEAN, w \in BOOLEAN :
          scan' = [scan EXCEPT !.executed = @ + 1,
                               !.seen = [configs |-> Len(scan.configs),
                                         files |-> Len(scan.files)],
                               !.error_logs = e,
                               !.checks_fail = f,
                               !.check_warns = w]
    /\ calls' = Append(calls, "execute")
    /\ pc' = "assert_no_error_logs"
    /\ UNCHANGED <<fixed, db_conn, builder, results, dag_id, task_id, error,
                   builders, log, entry, runs, passed>>

\* An engine-error assertion that test mode switches off.
AssertNoErrorLogs_TestModeSkips ==
    /\ pc = "assert_no_error_logs"
    /\ calls' = Append(calls, "assert_no_error_logs")
    /\ IF scan.error_logs /\ ~test_mode
       THEN pc' = "raised" /\ error' = "AssertionError: error logs"
       ELSE pc' = "get_all_checks_text" /\ error' = error
    /\ UNCHANGED <<fixed, scan, db_conn, builder, results, dag_id, task_id,
                   builders, log, entry, runs, passed>>

\* An engine-error assertion that runs the scan again instead of raising.
AssertNoErrorLogs_Retry ==
    /\ pc = "assert_no_error_logs"
    /\ calls' = Append(calls, "assert_no_error_logs")
    /\ IF scan.error_logs /\ scan.executed = entry.executed + 1
       THEN pc' = "execute" /\ error' = error
       ELSE IF scan.error_logs
            THEN pc' = "raised" /\ error' = "AssertionError: error logs"
            ELSE pc' = "get_all_checks_text" /\ error' = error
    /\ UNCHANGED <<fixed, scan, db_conn, builder, results, dag_id, task_id,
                   builders, log, entry, runs, passed>>

\* Line 102: raises AssertionError when the engine logged an error.
AssertNoErrorLogs ==
    /\ pc = "assert_no_error_logs"
    /\ calls' = Append(calls, "assert_no_error_logs")
    /\ IF scan.error_logs
       THEN pc' = "raised" /\ error' = "AssertionError: error logs"
       ELSE pc' = "get_all_checks_text" /\ error' = error
    /\ UNCHANGED <<fixed, scan, db_conn, builder, results, dag_id, task_id,
                   builders, log, entry, runs, passed>>

\* Lines 103-105.
GetAllChecksText ==
    /\ pc = "get_all_checks_text"
    /\ calls' = Append(calls, "get_all_checks_text")
    /\ results' = ChecksText(scan.checks_fail, scan.check_warns)
    /\ dag_id' = context.dag.dag_id
    /\ task_id' = context.task.task_id
    /\ pc' = "assert_no_checks_fail"
    /\ UNCHANGED <<fixed, scan, db_conn, builder, error, builders, log, entry,
                   runs, passed>>

\* Lines 107-115: the try/except around scan.assert_no_checks_fail().
AssertNoChecksFail ==
    /\ pc = "assert_no_checks_fail"
    /\ calls' = Append(calls, "assert_no_checks_fail")
    /\ IF scan.checks_fail
       THEN IF OnChecksFail(test_mode) = "log"
            THEN /\ log' = Append(log, [level |-> "ERROR",
                                        msg |-> TestingMsg(dag_id, task_id, results)])
                 /\ pc' = "has_check_warns"
                 /\ error' = error
            ELSE /\ pc' = "raised"
                 /\ error' = "AssertionError: checks fail"
                 /\ log' = log
       ELSE /\ pc' = "has_check_warns"
            /\ UNCHANGED <<log, error>>
    /\ UNCHANGED <<fixed, scan, db_conn, builder, results, dag_id, task_id,
                   builders, entry, runs, passed>>

\* Lines 117-120: log the summary when a check warned, then return.
HasCheckWarns ==
    /\ pc = "has_check_warns"
    /\ calls' = Append(calls, "has_check_warns")
    /\ log' = log \o WarnEntries(scan.check_warns, dag_id, task_id, results)
    /\ pc' = "returned"
    /\ UNCHANGED <<fixed, scan, db_conn, builder, results, dag_id, task_id,
                   error, builders, entry, runs, passed>>

Next ==
    \/ GetConnection
    \/ Dispatch
    \/ FetchPostgresYamlConfig
    \/ FetchOracleYamlConfig
    \/ FetchMysqlYamlConfig
    \/ SetDataSourceName
    \/ AddSodaclYamlFiles
    \/ AddVariables
    \/ ScanExecute
    \/ AssertNoErrorLogs
    \/ GetAllChecksText
    \/ AssertNoChecksFail
    \/ HasCheckWarns

Spec == Init /\ [][Next]_vars

\* ------------------------------------------------------------------------
\* Vocabulary of the properties
\* ------------------------------------------------------------------------
\* The current execute() call has made the call named c on the scan handle.
Called(c) == \E i \in 1..Len(calls) : calls[i] = c

\* The log entries of the current execute() call at one severity.
EntriesAt(level) == SelectSeq(log, LAMBDA e : e.level = level)

\* The token sequence part occurs contiguously in text.
Occurs(part, text) ==
    \E i \in 0..(Len(text) - Len(part)) : SubSeq(text, i + 1, i + Len(part)) = part

\* The token t occurs somewhere in the configuration fragment.
InFragment(t, fragment) ==
    \E i \in 1..Len(fragment) : \E j \in 1..Len(fragment[i]) : fragment[i][j] = t

\* The summary the engine reports for the scan it last ran.
Summary == ChecksText(scan.checks_fail, scan.check_warns)

\* The current call ran the scan and the engine logged no internal error.
CleanScan == Called("assert_no_error_logs") /\ ~scan.error_logs

\* The current call is over.
Terminated == pc \in {"returned", "raised"}

\* The order of the calls on the scan handle that one execute() makes.
ScanCallOrder ==
    <<"add_configuration_yaml_str", "set_data_source_name",
      "add_sodacl_yaml_files", "add_variables", "execute",
      "assert_no_error_logs", "assert_no_checks_fail", "has_check_warns">>

\* ------------------------------------------------------------------------
\* C1
\* ------------------------------------------------------------------------
\* C1 as stated: whenever a call that ran a clean scan with a warning is
\* over, it has emitted a warning entry carrying the summary, whatever the
\* check outcome and test_mode are.
C1_WarningAlwaysLogged ==
    (Terminated /\ CleanScan /\ scan.check_warns)
        => \E i \in 1..Len(log) :
              /\ log[i].level = "WARNING"
              /\ Occurs(Summary, log[i].msg)

\* C1 amended: a call that ran a clean scan with a warning and is over has
\* emitted exactly one warning entry carrying the summary, in every
\* combination of check outcome and test_mode except failing checks with
\* test_mode off, where it has raised instead and logged nothing.
C1_WarningLoggedUnlessRaised ==
    (Terminated /\ CleanScan /\ scan.check_warns)
        => IF scan.checks_fail /\ ~test_mode
           THEN pc = "raised" /\ log = <<>>
           ELSE /\ pc = "returned"
                /\ Len(EntriesAt("WARNING")) = 1
                /\ Occurs(Summary, EntriesAt("WARNING")[1].msg)

\* A test-mode call whose checks both failed and warned has returned.
C1_Witness ==
    /\ pc = "returned" /\ CleanScan
    /\ scan.check_warns /\ scan.checks_fail /\ test_mode

\* ------------------------------------------------------------------------
\* C2
\* ------------------------------------------------------------------------
\* C2: in test mode execute() never raises.
C2_TestModeNeverRaises == test_mode => pc # "raised"

\* ------------------------------------------------------------------------
\* C3
\* ------------------------------------------------------------------------
\* C3: with test_mode off, once the check-failure assertion has run on a
\* clean scan whose checks fail, execute() has raised the check failure and
\* done nothing more: the assertion is its last call on the handle, it never
\* queried the warnings and it logged nothing.
C3_RaiseStopsExecution ==
    (~test_mode /\ CleanScan /\ scan.checks_fail /\ Called("assert_no_checks_fail"))
        => /\ pc = "raised"
           /\ error = "AssertionError: checks fail"
           /\ calls[Len(calls)] = "assert_no_checks_fail"
           /\ ~Called("has_check_warns")
           /\ log = <<>>

\* A call has raised the check failure of a scan that also had a warning.
C3_Witness ==
    /\ pc = "raised" /\ error = "AssertionError: checks fail"
    /\ scan.check_warns /\ ~test_mode

\* ------------------------------------------------------------------------
\* C4
\* ------------------------------------------------------------------------
\* C4: in test mode, once the check-failure assertion has run on a clean
\* scan whose checks fail, execute() has not raised, and it has emitted
\* exactly one error entry, which carries the summary, the dag id and the
\* task id of the context.
C4_TestModeLogsFailure ==
    (test_mode /\ CleanScan /\ scan.checks_fail /\ Called("assert_no_checks_fail"))
        => /\ pc \in {"has_check_warns", "returned"}
           /\ error = "none"
           /\ Len(EntriesAt("ERROR")) = 1
           /\ LET msg == EntriesAt("ERROR")[1].msg
              IN  /\ Occurs(Summary, msg)
                  /\ Occurs(<<context.dag.dag_id, ".", context.task.task_id>>, msg)

\* A test-mode call with failing checks and no warning has returned.
C4_Witness ==
    /\ pc = "returned" /\ test_mode /\ scan.checks_fail /\ ~scan.check_warns
    /\ Len(log) = 1

\* ------------------------------------------------------------------------
\* C5
\* ------------------------------------------------------------------------
\* C5: a call that ran a clean scan with no failing check and a warning
\* never raises, and once over it has logged one warning entry and nothing
\* else; the entry is the same whatever test_mode is.
C5_WarningOnly ==
    (CleanScan /\ ~scan.checks_fail /\ scan.check_warns)
        => /\ pc # "raised"
           /\ error = "none"
           /\ EntriesAt("ERROR") = <<>>
           /\ pc = "returned" =>
                 log = <<[level |-> "WARNING",
                          msg |-> <<":warning: SODA WARNING :warning:: ",
                                    context.dag.dag_id, ".",
                                    context.task.task_id, ":\n\n">> \o Summary]>>

\* A test-mode call with a warning and no failing check has returned.
C5_Witness ==
    /\ pc = "returned" /\ test_mode /\ ~scan.checks_fail /\ scan.check_warns
    /\ Len(log) = 1 /\ runs = 1

C8_FragmentHasEveryField ==
    (pc \notin {"idle", "getattr", "call_builder"} /\ error # "AirflowNotFoundException"
        /\ error # "AttributeError")
        => LET fragment == scan.configs[Len(scan.configs)]
           IN  /\ builders = <<"_fetch_" \o db_conn.conn_type \o "_yaml_config">>
               /\ db_conn.host # None => InFragment(db_conn.host[1], fragment)
               /\ db_conn.login # None => InFragment(db_conn.login[1], fragment)
               /\ db_conn.password # None => InFragment(db_conn.password[1], fragment)
               /\ db_conn.schema # None => InFragment(db_conn.schema[1], fragment)
               /\ db_conn.port # None => InFragment("1521", fragment)

\* C8 amended: a call past its builder has entered exactly one builder, the
\* one of the connection's type, and the fragment it registered holds every
\* one of host, login, password and schema that the descriptor provides;
\* it holds a provided port for the oracle type only.
C8_FragmentHasFieldsOfTemplate ==
    (pc \notin {"idle", "getattr", "call_builder"} /\ error # "AirflowNotFoundException"
        /\ error # "AttributeError")
        => LET fragment == scan.configs[Len(scan.configs)]
           IN  /\ Len(builders) = 1
               /\ db_conn.conn_type = "postgres" => builders[1] = "_fetch_postgres_yaml_config"
               /\ db_conn.conn_type = "oracle" => builders[1] = "_fetch_oracle_yaml_config"
               /\ db_conn.conn_type = "mysql" => builders[1] = "_fetch_mysql_yaml_config"
               /\ db_conn.conn_type \in {"postgres", "oracle", "mysql"}
               /\ fragment[1] = <<"data_source", airflow_conn_id, ":">>
               /\ db_conn.host # None => InFragment(db_conn.host[1], fragment)
               /\ db_conn.login # None => InFragment(db_conn.login[1], fragment)
               /\ db_conn.password # None => InFragment(db_conn.password[1], fragment)
               /\ db_conn.schema # None => InFragment(db_conn.schema[1], fragment)
               /\ db_conn.port # None =>
                     (InFragment("1521", fragment) <=> db_conn.conn_type = "oracle")

\* A mysql call whose descriptor provides all five fields is past its
\* builder.
C8_Witness ==
    /\ builders = <<"_fetch_mysql_yaml_config">>
    /\ pc = "set_data_source_name"
    /\ db_conn.host # None /\ db_conn.port # None /\ db_conn.login # None
    /\ db_conn.password # None /\ db_conn.schema # None

\* ------------------------------------------------------------------------
\* C9
\* ------------------------------------------------------------------------
\* C9: the calls one execute() makes on the scan handle follow the fixed
\* order (skipping the summary query): they are always a prefix of it; the
\* data source name it sets is the connection identifier; and a call that
\* is over after passing the dispatch has run the scan exactly once, whether
\* it returned or raised.
C9_FixedCallOrder ==
    LET made == SelectSeq(calls, LAMBDA c : c # "get_all_checks_text")
        ran == Len(SelectSeq(calls, LAMBDA c : c = "execute"))
    IN  /\ Len(made) <= Len(ScanCallOrder)
        /\ made = SubSeq(ScanCallOrder, 1, Len(made))
        /\ Len(scan.configs) = Len(entry.configs) + Len(builders)
        /\ Len(builders) <= 1
        /\ Called("set_data_source_name") => scan.data_source_name = <<airflow_conn_id>>
        /\ ran <= 1
        /\ scan.executed = entry.executed + ran
        /\ (Terminated /\ builders # <<>>) => ran = 1

\* A call has raised on an engine error after running the scan once.
C9_Witness ==
    /\ pc = "raised" /\ error = "AssertionError: error logs"
    /\ Len(calls) = 6 /\ scan.executed = 1

\* ------------------------------------------------------------------------
\* C10
\* ------------------------------------------------------------------------
\* C10: the handle of the constructor lives through every execute(): between
\* calls it holds one fragment and one rule-file registration per call that
\* passed the dispatch, returned or raised, and each scan runs on all the
\* fragments and rule files registered so far.
C10_HandleAccumulates ==
    /\ (pc \in {"idle", "returned", "raised"})
          => /\ Len(scan.configs) = passed
             /\ Len(scan.files) = passed
             /\ scan.executed = passed
    /\ Called("execute") => scan.seen = [configs |-> passed, files |-> passed]
    /\ ~scan.telemetry

\* A second call has raised after a first one raised, and its scan ran on
\* two fragments and two rule files.
C10_Witness ==
    /\ runs = 2 /\ passed = 2 /\ pc = "raised"
    /\ Len(scan.configs) = 2 /\ Len(scan.files) = 2
    /\ scan.seen = [configs |-> 2, files |-> 2]
    /\ entry.error_logs
====
